---- MODULE Spec2Model ----
(***************************************************************************)
(* Cellars.me: the inventory store (table wines) and the catalog importer  *)
(* (table wine_catalog) of server/storage.ts and its routes.               *)
(*                                                                         *)
(* The repository holds several drafts of the same storage class.  A run   *)
(* of the program is a run of one draft; the variable draft names it:      *)
(*   "dynamic"   storage.ts 40-219 (and 457-642, the same statements sent  *)
(*               through pool.query): UPDATE built from the present fields *)
(*   "ormset"    storage.ts 262-414: db.update(wines).set(wine)            *)
(*   "reinsert"  storage.ts 685-854: select, delete, insert again          *)
(*   "coalesce"  unnamed/part_004 40-171: UPDATE ... COALESCE(param, col)  *)
(*   "mem"       unnamed/part_004 214-328: MemStorage, a Map per table     *)
(*   "noowner"   unnamed/part_004 330-519: DatabaseStorage with no owner   *)
(*   "inline"    storage.ts 946-1036: PATCH /api/wines/:id running its own *)
(*               UPDATE on req.body; the other operations are those of the *)
(*               storage class of the same file                           *)
(* Calls into the ORM and the driver (set, sql.raw, values) are modelled   *)
(* by the statement the code writes.                                       *)
(***************************************************************************)
EXTENDS Integers, Sequences, FiniteSets, TLC

VARIABLES
    draft,      \* the draft of the storage class that runs
    wines,      \* table wines: a set of rows
    wineSeq,    \* the serial behind wines.id: the next id it hands out
    clock,      \* the backend's clock, read by defaultNow()
    ret,        \* the last call that returned: operation, arguments, outcome
    calls,      \* update calls in flight, one per slot
    catalog,    \* table wine_catalog: a set of rows
    catSeq,     \* the serial behind wine_catalog.id
    csv,        \* the CSV file the catalog is loaded from
    loads       \* calls of loadWineCatalogFromCSV, one per slot

vars == <<draft, wines, wineSeq, clock, ret, calls, catalog, catSeq, csv, loads>>

\* the catalog importer's part of the state
catVars == <<catalog, catSeq, csv, loads>>

\* the inventory store's part of the state
invVars == <<wines, wineSeq, clock, ret, calls>>

(***************************************************************************)
(* Values.  A column value or a payload value is NULL/null or one value:   *)
(* Null is the empty sequence and Val(v) the sequence holding v.  A        *)
(* payload field that is undefined is a field outside the payload's        *)
(* DOMAIN.                                                                 *)
(***************************************************************************)
Null == <<>>

Val(v) == <<v>>

Users == {"u1", "u2"}

\* Partial<InsertWine>: the columns of wines but id, userId and createdAt
PayloadFields ==
    {"name", "category", "wine", "subType", "producer", "region", "country",
     "stockLevel", "vintageStocks", "imageUrl", "rating", "notes"}

\* the columns of wines (unnamed/part_003 65-81)
RowFields == PayloadFields \cup {"id", "userId", "createdAt"}

\* columns declared .notNull() among the payload's
NotNullFields == {"name", "category"}

\* the row a statement writes breaks a NOT NULL constraint
BreaksNotNull(r) ==
    \/ \E f \in NotNullFields : r[f] = Null
    \/ r.userId = Null

\* outcomes of a call
Undefined == [kind |-> "undefined"]

Thrown == [kind |-> "error"]

Found(r) == [kind |-> "row", row |-> r]

Bool(b) == [kind |-> "bool", val |-> b]

Rows(s) == [kind |-> "rows", rows |-> s]

BadRequest == [kind |-> "400"]

\* const [wine] = rows / result.rows[0]
First(hit) == IF hit = {} THEN Undefined ELSE Found(CHOOSE r \in hit : TRUE)

\* WHERE id = $1 AND user_id = $2
WhereIdUser(tbl, id, userId) ==
    {r \in tbl : r.id = id /\ r.userId = Val(userId)}

\* WHERE id = $1
WhereId(tbl, id) == {r \in tbl : r.id = id}

\* a slip of Assign: a nullable column the payload leaves out is written as NULL
AssignOrNull(r, set) ==
    [f \in DOMAIN r |->
        IF f \in DOMAIN set THEN set[f]
        ELSE IF f \in PayloadFields \ NotNullFields THEN Null ELSE r[f]]

\* the row r with the columns of the function set assigned
Assign(r, set) ==
    [f \in DOMAIN r |-> IF f \in DOMAIN set THEN set[f] ELSE r[f]]

\* UPDATE wines SET <set> WHERE <hit> RETURNING *, as one statement
UpdateStmt(tbl, hit, set) ==
    IF hit = {} THEN [tbl |-> tbl, res |-> Undefined]
    ELSE IF \E r \in hit : BreaksNotNull(Assign(r, set))
    THEN [tbl |-> tbl, res |-> Thrown]
    ELSE [tbl |-> (tbl \ hit) \cup {Assign(r, set) : r \in hit},
          res |-> First({Assign(r, set) : r \in hit})]

\* DELETE FROM wines WHERE <hit>
\* a delete that leaves the rows in the table (a soft delete)
DeleteStmtKeeps(tbl, hit) == tbl

DeleteStmt(tbl, hit) == tbl \ hit

\* INSERT INTO wines ... RETURNING *: the primary key and NOT NULL are checked
InsertStmt(tbl, row) ==
    IF (\E r \in tbl : r.id = row.id) \/ BreaksNotNull(row)
    THEN [tbl |-> tbl, res |-> Thrown]
    ELSE [tbl |-> tbl \cup {row}, res |-> Found(row)]

(***************************************************************************)
(* updateWine, draft by draft: the table and the outcome of one call run   *)
(* alone.                                                                  *)
(***************************************************************************)
\* storage.ts 114-189: one UPDATE of the fields that are !== undefined
updateWineDynamic(tbl, id, wine, userId) ==
    IF DOMAIN wine = {}
    THEN [tbl |-> tbl, res |-> First(WhereIdUser(tbl, id, userId))]
    ELSE UpdateStmt(tbl, WhereIdUser(tbl, id, userId), wine)

\* storage.ts 315-322: db.update(wines).set(wine).where(id, userId)
updateWineOrmSet(tbl, id, wine, userId) ==
    UpdateStmt(tbl, WhereIdUser(tbl, id, userId), wine)

\* unnamed/part_004 114-141: col = COALESCE(param, col) for every column; the
\* vintage_stocks parameter is JSON.stringify(value)::json, and
\* JSON.stringify(null) is the text 'null', a json value that is not NULL
CoalesceSet(wine) ==
    [f \in {g \in DOMAIN wine : g = "vintageStocks" \/ wine[g] # Null}
        |-> wine[f]]

updateWineCoalesce(tbl, id, wine, userId) ==
    UpdateStmt(tbl, WhereIdUser(tbl, id, userId), CoalesceSet(wine))

\* unnamed/part_004 370-405: updateData field by field, vintageStocks forced
\* to an array; WHERE id only
NoOwnerSet(wine) ==
    [f \in DOMAIN wine |->
        IF f = "vintageStocks" /\ wine[f] = Null THEN Val(<<>>) ELSE wine[f]]

updateWineNoOwner(tbl, id, wine, userId) ==
    UpdateStmt(tbl, WhereId(tbl, id), NoOwnerSet(wine))

\* unnamed/part_004 254-261: { ...existingWine, ...wine } into the Map
updateWineMem(tbl, id, wine, userId) ==
    LET hit == WhereId(tbl, id)
    IN  IF hit = {} THEN [tbl |-> tbl, res |-> Undefined]
        ELSE [tbl |-> (tbl \ hit) \cup {Assign(r, wine) : r \in hit},
              res |-> First({Assign(r, wine) : r \in hit})]

\* storage.ts 946-1036: the route's own UPDATE; no field is a 400, no row a 404
updateWineInline(tbl, id, updateData, userId) ==
    IF DOMAIN updateData = {}
    THEN [tbl |-> tbl, res |-> BadRequest]
    ELSE UpdateStmt(tbl, WhereIdUser(tbl, id, userId), updateData)

\* storage.ts 777-793: updatedWineData; ?? keeps the current value for null too
Nullish(wine, f) == f \notin DOMAIN wine \/ wine[f] = Null

\* a re-insert that leaves created_at to the column's default
updatedWineDataRestamped(id, wine, userId, currentWine) ==
    [f \in DOMAIN currentWine |->
        CASE f = "id" -> id
          [] f = "userId" -> Val(userId)
          [] f = "createdAt" -> Null
          [] OTHER -> IF f \in DOMAIN wine THEN wine[f] ELSE currentWine[f]]

updatedWineData(id, wine, userId, currentWine) ==
    [f \in DOMAIN currentWine |->
        CASE f = "id" -> id
          [] f = "userId" -> Val(userId)
          [] f = "createdAt" -> currentWine.createdAt
          [] f \in {"name", "category", "stockLevel", "vintageStocks"} ->
                IF Nullish(wine, f) THEN currentWine[f] ELSE wine[f]
          [] OTHER -> IF f \in DOMAIN wine THEN wine[f] ELSE currentWine[f]]

\* storage.ts 759-824 run alone: select, delete, insert
updateWineReinsert(tbl, id, wine, userId) ==
    LET cur == First(WhereIdUser(tbl, id, userId))
    IN  IF cur.kind = "undefined" THEN [tbl |-> tbl, res |-> Undefined]
        ELSE InsertStmt(DeleteStmt(tbl, WhereIdUser(tbl, id, userId)),
                        updatedWineData(id, wine, userId, cur.row))

\* update(id, owner, payload) of the draft d
updateWine(d, tbl, id, wine, userId) ==
    CASE d = "dynamic" -> updateWineDynamic(tbl, id, wine, userId)
      [] d = "ormset" -> updateWineOrmSet(tbl, id, wine, userId)
      [] d = "reinsert" -> updateWineReinsert(tbl, id, wine, userId)
      [] d = "coalesce" -> updateWineCoalesce(tbl, id, wine, userId)
      [] d = "noowner" -> updateWineNoOwner(tbl, id, wine, userId)
      [] d = "mem" -> updateWineMem(tbl, id, wine, userId)
      [] d = "inline" -> updateWineInline(tbl, id, wine, userId)

(***************************************************************************)
(* deleteWine, the reads and addWine.  The drafts "dynamic", "ormset",     *)
(* "reinsert", "coalesce" and "inline" share the owner-scoped statements;  *)
(* "noowner" and "mem" take no owner.                                      *)
(***************************************************************************)
OwnerScoped(d) == d \notin {"noowner", "mem"}

\* storage.ts 191-194: rowCount > 0; unnamed/part_004 407-410: !!result, and
\* the result of a statement is an object; 263-265: Map.delete(id)
deleteWine(d, tbl, id, userId) ==
    CASE d = "noowner" ->
            [tbl |-> DeleteStmt(tbl, WhereId(tbl, id)), res |-> Bool(TRUE)]
      [] d = "mem" ->
            [tbl |-> DeleteStmt(tbl, WhereId(tbl, id)),
             res |-> Bool(WhereId(tbl, id) # {})]
      [] OTHER ->
            [tbl |-> DeleteStmt(tbl, WhereIdUser(tbl, id, userId)),
             res |-> Bool(Cardinality(WhereIdUser(tbl, id, userId)) > 0)]

\* storage.ts 75-78; unnamed/part_004 342-345 and 236-238
getWineById(d, tbl, id, userId) ==
    IF OwnerScoped(d) THEN First(WhereIdUser(tbl, id, userId))
    ELSE First(WhereId(tbl, id))

\* storage.ts 71-73; unnamed/part_004 337-340 and 232-234
getWines(d, tbl, userId) ==
    IF OwnerScoped(d) THEN Rows({r \in tbl : r.userId = Val(userId)})
    ELSE Rows(tbl)

\* storage.ts 80-82; unnamed/part_004 347-350 and 240-244
getWinesByCategory(d, tbl, category, userId) ==
    IF OwnerScoped(d)
    THEN Rows({r \in tbl : r.category = Val(category) /\ r.userId = Val(userId)})
    ELSE Rows({r \in tbl : r.category = Val(category)})

\* a value of the insert object: undefined is left to the column (NULL)
Given(wine, f) == IF f \in DOMAIN wine THEN wine[f] ELSE Null

\* storage.ts 89-103: wineInsert, with stockLevel || 0 and vintageStocks || []
wineInsert(wine, userId, id, now) ==
    [f \in RowFields |->
        CASE f = "id" -> id
          [] f = "userId" -> Val(userId)
          [] f = "createdAt" -> Val(now)
          [] f = "stockLevel" ->
                IF Given(wine, f) \in {Null, Val(0)} THEN Val(0) ELSE wine[f]
          [] f = "vintageStocks" ->
                IF Given(wine, f) = Null THEN Val(<<>>) ELSE wine[f]
          [] OTHER -> Given(wine, f)]

\* storage.ts 307-313: { ...wine, userId }; an omitted column takes its
\* default (unnamed/part_003 75-76), a null stays NULL
wineSpread(wine, userId, id, now) ==
    [f \in RowFields |->
        CASE f = "id" -> id
          [] f = "userId" -> Val(userId)
          [] f = "createdAt" -> Val(now)
          [] f = "stockLevel" -> IF f \in DOMAIN wine THEN wine[f] ELSE Val(0)
          [] f = "vintageStocks" ->
                IF f \in DOMAIN wine THEN wine[f] ELSE Val(<<>>)
          [] OTHER -> Given(wine, f)]

\* unnamed/part_004 352-368: wineData; no userId is given to the insert
wineData(wine, userId, id, now) ==
    [f \in RowFields |->
        CASE f = "id" -> id
          [] f = "userId" -> Null
          [] f = "createdAt" -> Val(now)
          [] f = "stockLevel" -> IF f \in DOMAIN wine THEN wine[f] ELSE Val(0)
          [] f = "vintageStocks" ->
                IF Given(wine, f) = Null THEN Val(<<>>) ELSE wine[f]
          [] f = "notes" ->
                IF Given(wine, f) = Val("") THEN Null ELSE Given(wine, f)
          [] OTHER -> Given(wine, f)]

\* unnamed/part_004 246-252: { ...wine, id, createdAt } into the Map
newWineMem(wine, userId, id, now) ==
    [f \in RowFields |->
        CASE f = "id" -> id
          [] f = "userId" -> Null
          [] f = "createdAt" -> Val(now)
          [] OTHER -> Given(wine, f)]

\* addWine(wine, userId) of the draft d; id is the serial's next value
addWine(d, tbl, wine, userId, id, now) ==
    CASE d = "mem" ->
            [tbl |-> tbl \cup {newWineMem(wine, userId, id, now)},
             res |-> Found(newWineMem(wine, userId, id, now))]
      [] d = "noowner" -> InsertStmt(tbl, wineData(wine, userId, id, now))
      [] d = "ormset" -> InsertStmt(tbl, wineSpread(wine, userId, id, now))
      [] OTHER -> InsertStmt(tbl, wineInsert(wine, userId, id, now))

(***************************************************************************)
(* Inputs and bounds.                                                      *)
(***************************************************************************)
\* ids a caller may name: those of the rows below and one never handed out
MaxId == 3

Ids == 1..MaxId

Categories == {"Red", "White"}

\* a payload: a function from some of PayloadFields
OnlyField(f, v) == [g \in {f} |-> v]

EmptyPayload == [g \in {} |-> Null]

\* every explicit empty or zero value at once
Falsy ==
    [stockLevel |-> Val(0), notes |-> Val(""), vintageStocks |-> Val(<<>>)]

UpdatePayloads ==
    { EmptyPayload,
      OnlyField("rating", Val(5)),
      OnlyField("rating", Null),
      OnlyField("stockLevel", Null),
      Falsy }

Barolo ==
    [name |-> Val("Barolo"), category |-> Val("Red"), stockLevel |-> Val(2),
     vintageStocks |-> Val(<<[vintage |-> 2018, stock |-> 2]>>),
     rating |-> Val(3), notes |-> Val("old")]

Soave == [name |-> Val("Soave"), category |-> Val("White")]

\* the rows that are in the database when the process starts: the tables
\* outlive the process (storage.ts 44-45), and a MemStorage starts empty
\* (unnamed/part_004 220-224)
SeedRows ==
    { wineInsert(Barolo, "u1", 1, 0), wineInsert(Soave, "u2", 2, 1) }

SeedTable(d) == IF d = "mem" THEN {} ELSE SeedRows

NoCall ==
    [op |-> "none", id |-> 0, userId |-> "", wine |-> EmptyPayload,
     category |-> "", pre |-> {}, res |-> Undefined]

Drafts ==
    {"dynamic", "ormset", "reinsert", "coalesce", "noowner", "mem", "inline"}

NoCalls == <<>>

\* no file and no load: the catalog importer at rest
NoFile == [exists |-> FALSE, records |-> <<>>]

CatalogAtRest ==
    /\ catalog = {}
    /\ catSeq = 1
    /\ csv = NoFile
    /\ loads = <<>>

Init ==
    /\ draft \in Drafts
    /\ wines = SeedTable(draft)
    /\ wineSeq = Cardinality(wines) + 1
    /\ clock = 2
    /\ ret = NoCall
    /\ calls = NoCalls
    /\ CatalogAtRest

(***************************************************************************)
(* The operations, each call run from its start to its return.             *)
(***************************************************************************)
Update(id, userId, wine) ==
    LET out == updateWine(draft, wines, id, wine, userId)
    IN  /\ wines' = out.tbl
        /\ ret' = [op |-> "update", id |-> id, userId |-> userId,
                   wine |-> wine, category |-> "", pre |-> wines,
                   res |-> out.res]
        /\ UNCHANGED <<catVars, draft, wineSeq, clock, calls>>

UpdateWine ==
    \E id \in Ids, userId \in Users, wine \in UpdatePayloads :
        Update(id, userId, wine)

Delete(id, userId) ==
    LET out == deleteWine(draft, wines, id, userId)
    IN  /\ wines' = out.tbl
        /\ ret' = [op |-> "delete", id |-> id, userId |-> userId,
                   wine |-> EmptyPayload, category |-> "", pre |-> wines,
                   res |-> out.res]
        /\ UNCHANGED <<catVars, draft, wineSeq, clock, calls>>

DeleteWine ==
    \E id \in Ids, userId \in Users : Delete(id, userId)

GetWineById ==
    \E id \in Ids, userId \in Users :
        /\ ret' = [op |-> "getById", id |-> id, userId |-> userId,
                   wine |-> EmptyPayload, category |-> "", pre |-> wines,
                   res |-> getWineById(draft, wines, id, userId)]
        /\ UNCHANGED <<catVars, draft, wines, wineSeq, clock, calls>>

GetWines ==
    \E userId \in Users :
        /\ ret' = [op |-> "list", id |-> 0, userId |-> userId,
                   wine |-> EmptyPayload, category |-> "", pre |-> wines,
                   res |-> getWines(draft, wines, userId)]
        /\ UNCHANGED <<catVars, draft, wines, wineSeq, clock, calls>>

GetWinesByCategory ==
    \E userId \in Users, category \in Categories :
        /\ ret' = [op |-> "listByCategory", id |-> 0, userId |-> userId,
                   wine |-> EmptyPayload, category |-> category,
                   pre |-> wines,
                   res |-> getWinesByCategory(draft, wines, category, userId)]
        /\ UNCHANGED <<catVars, draft, wines, wineSeq, clock, calls>>

Next ==
    \/ UpdateWine
    \/ DeleteWine
    \/ GetWineById
    \/ GetWines
    \/ GetWinesByCategory

Spec == Init /\ [][Next]_vars

(***************************************************************************)
(* Update calls that overlap.  Each await of updateWine is one statement   *)
(* of the backend, and the backend runs one statement at a time; between   *)
(* two statements of a call the statements of other calls may run.  A      *)
(* call keeps its slot after it returned, with its outcome.                *)
(***************************************************************************)
MaxCalls == 2

CallIds == 1..MaxCalls

ConcPayloads ==
    { OnlyField("rating", Val(5)),
      OnlyField("notes", Val("new")),
      [rating |-> Val(4), notes |-> Val("both")] }

Idle ==
    [pc |-> "idle", id |-> 0, userId |-> "", wine |-> EmptyPayload,
     cur |-> Undefined, res |-> Undefined]

InitConc ==
    /\ draft \in Drafts
    /\ wines = SeedTable(draft)
    /\ wineSeq = Cardinality(wines) + 1
    /\ clock = 2
    /\ ret = NoCall
    /\ calls = [c \in CallIds |-> Idle]
    /\ CatalogAtRest

\* a caller starts updateWine(id, wine, userId)
CallUpdate(c) ==
    \E id \in {1}, userId \in Users, wine \in ConcPayloads :
        /\ calls[c].pc = "idle"
        /\ calls' = [calls EXCEPT ![c] =
                        [pc |-> "called", id |-> id, userId |-> userId,
                         wine |-> wine, cur |-> Undefined, res |-> Undefined]]
        /\ UNCHANGED <<catVars, draft, wines, wineSeq, clock, ret>>

\* the drafts whose updateWine awaits one statement
RunUpdate(c) ==
    /\ calls[c].pc = "called"
    /\ draft # "reinsert"
    /\ LET out == updateWine(draft, wines, calls[c].id, calls[c].wine,
                             calls[c].userId)
       IN  /\ wines' = out.tbl
           /\ calls' = [calls EXCEPT ![c].pc = "done", ![c].res = out.res]
    /\ UNCHANGED <<catVars, draft, wineSeq, clock, ret>>

\* storage.ts 764-771: the select, and the return when no row is found
SelectCurrent(c) ==
    /\ calls[c].pc = "called"
    /\ draft = "reinsert"
    /\ LET cur == First(WhereIdUser(wines, calls[c].id, calls[c].userId))
       IN  calls' = [calls EXCEPT
                        ![c].pc = IF cur.kind = "undefined" THEN "done"
                                  ELSE "selected",
                        ![c].cur = cur]
    /\ UNCHANGED <<catVars, draft, wines, wineSeq, clock, ret>>

\* storage.ts 773-774: the delete
DeleteCurrent(c) ==
    /\ calls[c].pc = "selected"
    /\ wines' = DeleteStmt(wines,
                           WhereIdUser(wines, calls[c].id, calls[c].userId))
    /\ calls' = [calls EXCEPT ![c].pc = "deleted"]
    /\ UNCHANGED <<catVars, draft, wineSeq, clock, ret>>

\* storage.ts 776-823: the insert of updatedWineData; an error is rethrown
InsertUpdated(c) ==
    /\ calls[c].pc = "deleted"
    /\ LET out == InsertStmt(wines,
                             updatedWineData(calls[c].id, calls[c].wine,
                                             calls[c].userId,
                                             calls[c].cur.row))
       IN  /\ wines' = out.tbl
           /\ calls' = [calls EXCEPT ![c].pc = "done", ![c].res = out.res]
    /\ UNCHANGED <<catVars, draft, wineSeq, clock, ret>>

NextConc ==
    \E c \in CallIds :
        \/ CallUpdate(c)
        \/ RunUpdate(c)
        \/ SelectCurrent(c)
        \/ DeleteCurrent(c)
        \/ InsertUpdated(c)

SpecConc == InitConc /\ [][NextConc]_vars

(***************************************************************************)
(* The inventory with create: records are made, changed, read and removed, *)
(* one call at a time.  The serial behind wines.id and MemStorage's        *)
(* wineCurrentId hand out wineSeq and move on, whether or not the insert   *)
(* succeeds; the guard stops the run when MaxId has been handed out.       *)
(***************************************************************************)
CreatePayloads ==
    {Soave,
     [name |-> Val("Chianti"), category |-> Val("Red"), stockLevel |-> Val(4),
      vintageStocks |-> Val(<<[vintage |-> 2020, stock |-> 4]>>)]}

Add(userId, wine) ==
    /\ wineSeq <= MaxId
    /\ LET out == addWine(draft, wines, wine, userId, wineSeq, clock)
       IN  /\ wines' = out.tbl
           /\ ret' = [op |-> "create", id |-> wineSeq, userId |-> userId,
                      wine |-> wine, category |-> "", pre |-> wines,
                      res |-> out.res]
    /\ wineSeq' = wineSeq + 1
    /\ clock' = clock + 1
    /\ UNCHANGED <<catVars, draft, calls>>

AddWine ==
    \E userId \in Users, wine \in CreatePayloads : Add(userId, wine)

\* a rating is given to a record
RateWine ==
    \E id \in Ids, userId \in Users :
        Update(id, userId, OnlyField("rating", Val(5)))

NextCrud ==
    \/ AddWine
    \/ RateWine
    \/ DeleteWine
    \/ GetWineById

SpecCrud == Init /\ [][NextCrud]_vars

(***************************************************************************)
(* The same calls with one payload for create, the one that names no stock *)
(* and no rating: what a record holds besides its id and its owner plays   *)
(* no part in whether a removed record can be read again.                  *)
(***************************************************************************)
AddSoave ==
    \E userId \in Users : Add(userId, Soave)

NextRemove ==
    \/ AddSoave
    \/ RateWine
    \/ DeleteWine
    \/ GetWineById

SpecRemove == Init /\ [][NextRemove]_vars

(***************************************************************************)
(* The catalog importer, loadWineCatalogFromCSV.  Three drafts have one:   *)
(* "ormset" clears wine_catalog and inserts the file again, "noowner"      *)
(* counts the rows and imports only into an empty table, "mem" appends the *)
(* file to its map, and "chunk" is importChunk of the import script, which *)
(* inserts the records it is given row by row.  A call awaits the file and the database, so calls in  *)
(* flight interleave at those points: one action per stretch between two   *)
(* awaits.  The constructors of "ormset" and "mem" start a load on every   *)
(* start of the server, over the same table and file.                      *)
(***************************************************************************)
MaxLoads == 2

LoadIds == 1..MaxLoads

LoadDrafts == {"ormset", "noowner", "mem", "chunk"}

\* insert in batches of this many entries
batchSize == 1000

\* record.H of a parsed record: a header the file lacks reads undefined,
\* and undefined and "" are both falsy
Cell(record, h) == IF h \in DOMAIN record THEN record[h] ELSE ""

\* a || b on cells
OrElse(a, b) == IF a # "" THEN a ELSE b

\* a || null
OrNull(a) == IF a # "" THEN Val(a) ELSE Null

\* records.filter(record => record.NAME && record.CATEGORY)
Accepted(records) ==
    SelectSeq(records,
              LAMBDA r : Cell(r, "NAME") # "" /\ Cell(r, "CATEGORY") # "")

\* the entry of a record in the draft that clears the table
entryOfClear(r) ==
    [name     |-> Cell(r, "NAME"),
     category |-> Cell(r, "CATEGORY"),
     wine     |-> OrNull(Cell(r, "WINE")),
     subType  |-> OrNull(Cell(r, "SUBTYPE")),
     producer |-> OrNull(Cell(r, "PRODUCER")),
     region   |-> OrNull(Cell(r, "REGION")),
     country  |-> OrNull(Cell(r, "COUNTRY"))]

\* the entry of a record in the draft that counts the rows first
entryOfCount(r) ==
    [name     |-> OrElse(Cell(r, "NAME"), Cell(r, "name")),
     category |-> OrElse(Cell(r, "TYPE"), OrElse(Cell(r, "category"), "Other")),
     wine     |-> OrNull(OrElse(Cell(r, "WINE"), Cell(r, "wine"))),
     subType  |-> OrNull(OrElse(Cell(r, "SUB_TYPE"), Cell(r, "subType"))),
     producer |-> OrNull(OrElse(Cell(r, "PRODUCER"), Cell(r, "producer"))),
     region   |-> OrNull(OrElse(Cell(r, "REGION"), Cell(r, "region"))),
     country  |-> OrNull(OrElse(Cell(r, "COUNTRY"), Cell(r, "country")))]

\* the entry of a record in MemStorage, which has no wine and no subType
entryOfMem(r) ==
    [name     |-> Cell(r, "name"),
     category |-> OrElse(Cell(r, "category"), "Other"),
     wine     |-> Null,
     subType  |-> Null,
     producer |-> Val(Cell(r, "producer")),
     region   |-> Val(Cell(r, "region")),
     country  |-> Val(Cell(r, "country"))]

\* the values importChunk binds to its insert of one record
entryOfChunk(r) ==
    [name     |-> Cell(r, "NAME"),
     category |-> OrElse(Cell(r, "TYPE"), "Other"),
     wine     |-> OrNull(Cell(r, "WINE")),
     subType  |-> OrNull(Cell(r, "SUB_TYPE")),
     producer |-> OrNull(Cell(r, "PRODUCER")),
     region   |-> OrNull(Cell(r, "REGION")),
     country  |-> OrNull(Cell(r, "COUNTRY"))]

catalogEntries(d, records) ==
    IF d = "ormset"
    THEN LET accepted == Accepted(records)
         IN  [k \in 1..Len(accepted) |-> entryOfClear(accepted[k])]
    ELSE IF d = "noowner"
    THEN [k \in 1..Len(records) |-> entryOfCount(records[k])]
    ELSE IF d = "chunk"
    THEN [k \in 1..Len(records) |-> entryOfChunk(records[k])]
    ELSE [k \in 1..Len(records) |-> entryOfMem(records[k])]

\* a schema where wines.name references wine_catalog.name ON DELETE CASCADE
CascadeByName(tbl, gone) ==
    {w \in tbl : \E c \in gone : w.name = Val(c.name)}

\* the rows of wines that go with the rows deleted from wine_catalog: wines
\* has no column that references wine_catalog, so no row does
Cascade(tbl, gone) == {}

\* an entry without its id
Content(row) == [f \in DOMAIN row \ {"id"} |-> row[f]]

\* a catalog row: the entry and the id the serial gave it
CatalogRow(entry, id) ==
    [f \in DOMAIN entry \cup {"id"} |-> IF f = "id" THEN id ELSE entry[f]]

\* db.insert(wineCatalog).values(batch): ids from the serial, in order
InsertValues(tbl, seq, batch) ==
    tbl \cup {CatalogRow(batch[k], seq + k - 1) : k \in 1..Len(batch)}

\* catalogEntries.slice(i, i + batchSize)
Slice(entries, i, n) ==
    SubSeq(entries, i + 1, IF i + n < Len(entries) THEN i + n ELSE Len(entries))

\* the files a load may find at its path.  Cells carry no blanks at their
\* ends, so the parser's trim leaves them as they are.
Upper ==
    <<[NAME |-> "Barolo", CATEGORY |-> "Red", TYPE |-> "Red",
       WINE |-> "Nebbiolo", PRODUCER |-> "Conterno"],
      [NAME |-> "Soave", CATEGORY |-> "White", TYPE |-> "",
       WINE |-> "", PRODUCER |-> ""]>>

Lower ==
    <<[name |-> "Barolo", category |-> "Red", producer |-> "Conterno"],
      [name |-> "Soave", category |-> "", producer |-> ""]>>

CsvFiles ==
    {NoFile,
     [exists |-> TRUE, records |-> Upper],
     [exists |-> TRUE, records |-> Lower],
     [exists |-> TRUE, records |-> SubSeq(Upper, 1, 1)]}

\* a slot of loads: where the call stands, what it read and prepared, the
\* table as it was when the call was made, what the call has inserted and
\* deleted so far, the kind of statement the database has failed for it, and
\* how its promise was settled
IdleLoad ==
    [pc |-> "idle", records |-> <<>>, entries |-> <<>>, i |-> 0,
     pre |-> {}, inserted |-> 0, deleted |-> 0, failed |-> "none",
     outcome |-> "pending"]

\* the call is over: its promise is resolved, or rejected with the error
Settled(slot, how) == [slot EXCEPT !.pc = "done", !.outcome = how]

InitLoad ==
    /\ draft \in LoadDrafts
    /\ wines = SeedTable(draft)
    /\ wineSeq = Cardinality(wines) + 1
    /\ clock = 2
    /\ ret = NoCall
    /\ calls = NoCalls
    /\ catalog = {}
    /\ catSeq = 1
    /\ csv \in CsvFiles
    /\ loads = [c \in LoadIds |-> IdleLoad]

\* the call up to its first await: the test of fs.existsSync
CallLoad(c) ==
    /\ loads[c].pc = "idle"
    /\ IF draft = "mem"
       THEN /\ csv' = IF csv.exists THEN csv
                      ELSE [exists |-> TRUE, records |-> <<>>]
            /\ loads' = [loads EXCEPT ![c].pc = "parsing",
                                      ![c].pre = catalog]
       ELSE IF draft = "chunk"
       THEN /\ csv' = csv
            /\ LET entries == catalogEntries(draft, csv.records)
                    called  == [loads[c] EXCEPT !.pc = "rows",
                                                !.records = csv.records,
                                                !.entries = entries,
                                                !.pre = catalog]
               IN  loads' = [loads EXCEPT
                       ![c] = IF Len(entries) > 0 THEN called
                              ELSE Settled(called, "resolved")]
       ELSE /\ csv' = csv
            /\ LET called == [loads[c] EXCEPT
                       !.pc = IF draft = "ormset" THEN "reading"
                              ELSE "counting",
                       !.pre = catalog]
               IN  loads' = [loads EXCEPT
                       ![c] = IF csv.exists THEN called
                              ELSE Settled(called, "resolved")]
    /\ UNCHANGED <<invVars, draft, catalog, catSeq>>

\* "ormset": the stream is read to its end into records
ReadAll(c) ==
    /\ draft = "ormset"
    /\ loads[c].pc = "reading"
    /\ loads' = [loads EXCEPT ![c].pc = "clearing",
                              ![c].records = csv.records]
    /\ UNCHANGED <<invVars, draft, catalog, catSeq, csv>>

\* "ormset": db.delete(wineCatalog), then the entries are prepared
ClearCatalog(c) ==
    /\ draft = "ormset"
    /\ loads[c].pc = "clearing"
    /\ catalog' = {}
    /\ wines' = wines \ Cascade(wines, catalog)
    /\ LET entries == catalogEntries(draft, loads[c].records)
           cleared == [loads[c] EXCEPT !.pc = "inserting",
                                       !.entries = entries,
                                       !.deleted = Cardinality(catalog)]
       IN  loads' = [loads EXCEPT
               ![c] = IF Len(entries) > 0 THEN cleared
                      ELSE Settled(cleared, "resolved")]
    /\ UNCHANGED <<wineSeq, clock, ret, calls, draft, catSeq, csv>>

\* "ormset": one turn of the loop, the insert of one batch
InsertBatch(c) ==
    /\ draft = "ormset"
    /\ loads[c].pc = "inserting"
    /\ LET batch == Slice(loads[c].entries, loads[c].i, batchSize)
           i     == loads[c].i + batchSize
       IN  /\ catalog' = InsertValues(catalog, catSeq, batch)
           /\ catSeq' = catSeq + Len(batch)
           /\ LET turned == [loads[c] EXCEPT !.i = i,
                                              !.inserted = @ + Len(batch)]
              IN  loads' = [loads EXCEPT
                      ![c] = IF i < Len(loads[c].entries) THEN turned
                             ELSE Settled(turned, "resolved")]
    /\ UNCHANGED <<invVars, draft, csv>>

\* "noowner": select count(*), and the import is skipped when it is not 0
CountRows(c) ==
    /\ draft = "noowner"
    /\ loads[c].pc = "counting"
    /\ LET count == Cardinality(catalog)
       IN  loads' = [loads EXCEPT
               ![c] = IF count > 0 THEN Settled(@, "resolved")
                      ELSE [@ EXCEPT !.pc = "parsing"]]
    /\ UNCHANGED <<invVars, draft, catalog, catSeq, csv>>

\* "noowner": the parser hands over every record of the file
ParseAll(c) ==
    /\ draft = "noowner"
    /\ loads[c].pc = "parsing"
    /\ loads' = [loads EXCEPT
           ![c].pc = "ending",
           ![c].records = csv.records,
           ![c].entries = catalogEntries(draft, csv.records)]
    /\ UNCHANGED <<invVars, draft, catalog, catSeq, csv>>

\* "noowner": the end of the stream, one insert of all the entries
EndInsert(c) ==
    /\ draft = "noowner"
    /\ loads[c].pc = "ending"
    /\ LET entries == loads[c].entries
       IN  /\ catalog' = IF Len(entries) > 0
                         THEN InsertValues(catalog, catSeq, entries)
                         ELSE catalog
           /\ catSeq' = catSeq + Len(entries)
           /\ loads' = [loads EXCEPT
                  ![c] = Settled([@ EXCEPT !.inserted = Len(entries)],
                                 "resolved")]
    /\ UNCHANGED <<invVars, draft, csv>>

\* "mem": every record read is put into catalogStore under the next id
ParseMem(c) ==
    /\ draft = "mem"
    /\ loads[c].pc = "parsing"
    /\ LET entries == catalogEntries(draft, csv.records)
       IN  /\ catalog' = InsertValues(catalog, catSeq, entries)
           /\ catSeq' = catSeq + Len(entries)
           /\ loads' = [loads EXCEPT
                  ![c] = Settled([@ EXCEPT !.records = csv.records,
                                           !.entries = entries,
                                           !.inserted = Len(entries)],
                                 "resolved")]
    /\ UNCHANGED <<invVars, draft, csv>>

\* "chunk": one turn of the loop, the insert of one record
InsertRow(c) ==
    /\ draft = "chunk"
    /\ loads[c].pc = "rows"
    /\ LET i      == loads[c].i + 1
           turned == [loads[c] EXCEPT !.i = i, !.inserted = @ + 1]
       IN  /\ catalog' = InsertValues(catalog, catSeq, <<loads[c].entries[i]>>)
           /\ catSeq' = catSeq + 1
           /\ loads' = [loads EXCEPT
                  ![c] = IF i < Len(loads[c].entries) THEN turned
                         ELSE Settled(turned, "resolved")]
    /\ UNCHANGED <<invVars, draft, csv>>

NextLoad ==
    \E c \in LoadIds :
        \/ CallLoad(c)
        \/ ReadAll(c)
        \/ ClearCatalog(c)
        \/ InsertBatch(c)
        \/ CountRows(c)
        \/ ParseAll(c)
        \/ EndInsert(c)
        \/ ParseMem(c)
        \/ InsertRow(c)

SpecLoad == InitLoad /\ [][NextLoad]_vars

(***************************************************************************)
(* The importer over a database that may fail a statement: the awaited     *)
(* statement throws and leaves the table as it was.  What the call does    *)
(* then is its catch block.                                                *)
(***************************************************************************)
\* "ormset": db.delete throws, the catch logs the error and does not rethrow
ClearFails(c) ==
    /\ draft = "ormset"
    /\ loads[c].pc = "clearing"
    /\ loads' = [loads EXCEPT
           ![c] = Settled([@ EXCEPT !.failed = "delete"], "resolved")]
    /\ UNCHANGED <<invVars, draft, catalog, catSeq, csv>>

\* "ormset": the insert of a batch throws, the batches before it stay, the
\* catch logs the error and does not rethrow
InsertBatchFails(c) ==
    /\ draft = "ormset"
    /\ loads[c].pc = "inserting"
    /\ loads' = [loads EXCEPT
           ![c] = Settled([@ EXCEPT !.failed = "insert"], "resolved")]
    /\ UNCHANGED <<invVars, draft, catalog, catSeq, csv>>

\* "noowner": the count throws, the promise is rejected
CountFails(c) ==
    /\ draft = "noowner"
    /\ loads[c].pc = "counting"
    /\ loads' = [loads EXCEPT
           ![c] = Settled([@ EXCEPT !.failed = "count"], "rejected")]
    /\ UNCHANGED <<invVars, draft, catalog, catSeq, csv>>

\* "noowner": the one insert throws, the promise is rejected
EndInsertFails(c) ==
    /\ draft = "noowner"
    /\ loads[c].pc = "ending"
    /\ Len(loads[c].entries) > 0
    /\ loads' = [loads EXCEPT
           ![c] = Settled([@ EXCEPT !.failed = "insert"], "rejected")]
    /\ UNCHANGED <<invVars, draft, catalog, catSeq, csv>>

\* "chunk": the insert of a record throws, the catch inside the loop logs
\* the error and the loop goes on with the next record
InsertRowFails(c) ==
    /\ draft = "chunk"
    /\ loads[c].pc = "rows"
    /\ LET i      == loads[c].i + 1
           turned == [loads[c] EXCEPT !.i = i, !.failed = "insert"]
       IN  loads' = [loads EXCEPT
               ![c] = IF i < Len(loads[c].entries) THEN turned
                      ELSE Settled(turned, "resolved")]
    /\ UNCHANGED <<invVars, draft, catalog, catSeq, csv>>

NextLoadFail ==
    \/ NextLoad
    \/ \E c \in LoadIds :
           \/ ClearFails(c)
           \/ InsertBatchFails(c)
           \/ CountFails(c)
           \/ EndInsertFails(c)
           \/ InsertRowFails(c)

SpecLoadFail == InitLoad /\ [][NextLoadFail]_vars

(***************************************************************************)
(* The importer to its end.  The file is read through                      *)
(* createReadStream(filePath).pipe(parser), and the handlers for 'end' and *)
(* 'error' that settle the promise are put on the parser.  When the file   *)
(* cannot be read the error is emitted on the file's stream, which has no  *)
(* handler: pipe does not pass it on and does not end the parser, so no    *)
(* handler of the call runs again.  The event loop runs every callback     *)
(* that is due and the database answers every statement, with rows or with *)
(* an error: each call in flight takes its next step.                      *)
(***************************************************************************)
\* the stream of the file fails while it is read
ReadFails(c) ==
    /\ \/ draft = "ormset" /\ loads[c].pc = "reading"
       \/ draft \in {"noowner", "mem"} /\ loads[c].pc = "parsing"
    /\ loads' = [loads EXCEPT ![c].pc = "orphaned", ![c].failed = "read"]
    /\ UNCHANGED <<invVars, draft, catalog, catSeq, csv>>

\* the next step of the call in the slot c, whatever the file system and
\* the database answer
Proceed(c) ==
    \/ ReadAll(c)
    \/ ClearCatalog(c)
    \/ InsertBatch(c)
    \/ CountRows(c)
    \/ ParseAll(c)
    \/ EndInsert(c)
    \/ ParseMem(c)
    \/ InsertRow(c)
    \/ ClearFails(c)
    \/ InsertBatchFails(c)
    \/ CountFails(c)
    \/ EndInsertFails(c)
    \/ InsertRowFails(c)
    \/ ReadFails(c)

NextLoadLive ==
    \E c \in LoadIds : CallLoad(c) \/ Proceed(c)

SpecLoadLive ==
    /\ InitLoad
    /\ [][NextLoadLive]_vars
    /\ \A c \in LoadIds : WF_vars(Proceed(c))

(***************************************************************************)
(* Claims about overlapping updates (SpecConc).                            *)
(***************************************************************************)
\* the calls a and b are two updates of the same stored record by its owner,
\* both have returned, and no other call was made
BothUpdatesDone(a, b) ==
    /\ a # b
    /\ calls[a].pc = "done" /\ calls[b].pc = "done"
    /\ \A c \in CallIds \ {a, b} : calls[c].pc = "idle"
    /\ calls[a].id = calls[b].id
    /\ calls[a].userId = calls[b].userId
    /\ WhereIdUser(SeedTable(draft), calls[a].id, calls[a].userId) # {}

\* the table after update(id, userId, p) and then update(id, userId, q), each
\* run alone, from the table of the start
OneAfterTheOther(id, userId, p, q) ==
    updateWine(draft,
               updateWine(draft, SeedTable(draft), id, p, userId).tbl,
               id, q, userId).tbl

\* C1: no lost update.  When two update calls by the owner of a record
\* overlap and set disjoint fields, then once both have returned the stored
\* record carries the new values of both.
NoLostUpdate ==
    \A a, b \in CallIds :
        (/\ BothUpdatesDone(a, b)
         /\ DOMAIN calls[a].wine \cap DOMAIN calls[b].wine = {})
        => \E r \in wines :
              /\ r.id = calls[a].id
              /\ \A f \in DOMAIN calls[a].wine : r[f] = calls[a].wine[f]
              /\ \A f \in DOMAIN calls[b].wine : r[f] = calls[b].wine[f]

\* C2: updates are all-or-nothing relative to other writers.  When two update
\* calls on the same id and owner overlap, the table after both returned is
\* the table of one payload applied after the other, in one of the two orders.
UpdatesSerialize ==
    \A a, b \in CallIds :
        BothUpdatesDone(a, b)
        => \/ wines = OneAfterTheOther(calls[a].id, calls[a].userId,
                                       calls[a].wine, calls[b].wine)
           \/ wines = OneAfterTheOther(calls[a].id, calls[a].userId,
                                       calls[b].wine, calls[a].wine)

(***************************************************************************)
(* Claims about one call at a time (Spec).  ret holds the call that        *)
(* returned last, ret.pre the table it started from.                       *)
(***************************************************************************)
\* the rows of the table tbl that the call ret names by id and owner
Target(tbl) == WhereIdUser(tbl, ret.id, ret.userId)

\* the rows with the id the call names that belong to another user
Foreign(tbl) ==
    {r \in tbl : r.id = ret.id /\ r.userId # Null /\ r.userId # Val(ret.userId)}

\* C3: read isolation.  getById(R.id, B) is not-found for a record R of
\* another user, and listByOwner(B) and listByOwnerAndCategory(B, c) never
\* hold a record of another user.
ReadIsolation ==
    /\ (ret.op = "getById" /\ Foreign(wines) # {}) => ret.res = Undefined
    /\ ret.op \in {"list", "listByCategory"}
        => \A r \in ret.res.rows : r.userId = Val(ret.userId)

\* C4: write isolation.  update(R.id, B, payload) is not-found and
\* delete(R.id, B) is false for a record R of another user, and R stays in
\* the table as it was.
WriteIsolation ==
    (ret.op \in {"update", "delete"} /\ Foreign(ret.pre) # {})
    => /\ ret.op = "update" => ret.res = Undefined
       /\ ret.op = "delete" => ret.res = Bool(FALSE)
       /\ Foreign(ret.pre) \subseteq wines

\* C5: partial-update frame.  After update(id, owner, payload), whatever its
\* outcome, every row that had the id still has every field that is absent
\* from the payload at the value it had before the call.
PartialUpdateFrame ==
    ret.op = "update"
    => \A r0 \in WhereId(ret.pre, ret.id) :
          \E r1 \in wines :
              /\ r1.id = r0.id
              /\ \A f \in RowFields \ DOMAIN ret.wine : r1[f] = r0[f]

\* C5, its case: {rating: 5} was applied to the record of rating 3, and the
\* record has the new rating
FrameWitness ==
    /\ ret.op = "update"
    /\ ret.wine = OnlyField("rating", Val(5))
    /\ ret.res.kind = "row"
    /\ \E r0 \in Target(ret.pre) : r0.rating = Val(3) /\ r0.notes = Val("old")
    /\ \E r1 \in Target(wines) : r1.rating = Val(5) /\ r1.notes = Val("old")

\* the value v of the field f is an explicit empty or zero value, or null
\* for a nullable field
ExplicitFalsy(f, v) ==
    \/ v = Null /\ f \notin NotNullFields
    \/ f = "stockLevel" /\ v = Val(0)
    \/ f = "vintageStocks" /\ v = Val(<<>>)
    \/ f \notin {"stockLevel", "vintageStocks", "rating"} /\ v = Val("")

\* C6: absence and explicit-falsy are distinct.  An update of an existing
\* record stores every explicit empty, zero or null value of its payload and
\* keeps every field the payload omits.
FalsyOverwrites ==
    (ret.op = "update" /\ Target(ret.pre) # {})
    => \A r0 \in Target(ret.pre) :
          \E r1 \in wines :
              /\ r1.id = r0.id
              /\ \A f \in DOMAIN ret.wine :
                    ExplicitFalsy(f, ret.wine[f]) => r1[f] = ret.wine[f]
              /\ \A f \in PayloadFields \ DOMAIN ret.wine : r1[f] = r0[f]

\* C7: the empty-payload update is a successful no-op.  update(id, owner, {})
\* of an existing record returns that record and leaves the table as it was.
EmptyUpdateIsNoOp ==
    (ret.op = "update" /\ ret.wine = EmptyPayload /\ Target(ret.pre) # {})
    => /\ ret.res.kind = "row"
       /\ ret.res.row \in Target(ret.pre)
       /\ wines = ret.pre

\* C8: update returns not-found exactly when no record with the id and the
\* owner exists, for every payload, as a normal return value, and then the
\* table is unchanged.
NotFoundExactly ==
    ret.op = "update"
    => /\ ret.res = Undefined <=> Target(ret.pre) = {}
       /\ ret.res = Undefined => wines = ret.pre

\* C12: delete returns true exactly when it removed a record.  delete(id,
\* owner) returns true when a record of that id and owner was stored and is
\* gone after the call; otherwise it returns false and leaves the table as
\* it was.
DeleteReturnsRemoved ==
    ret.op = "delete"
    => IF Target(ret.pre) # {}
       THEN ret.res = Bool(TRUE) /\ wines = ret.pre \ Target(ret.pre)
       ELSE ret.res = Bool(FALSE) /\ wines = ret.pre

\* C19: the lists are exact.  listByOwner(o) returns exactly the stored
\* records whose owner is o, and listByOwnerAndCategory(o, c) exactly those
\* of them whose category is the string c.
ListsAreExact ==
    /\ ret.op = "list"
       => ret.res = Rows({r \in wines : r.userId = Val(ret.userId)})
    /\ ret.op = "listByCategory"
       => ret.res = Rows({r \in wines : /\ r.userId = Val(ret.userId)
                                        /\ r.category = Val(ret.category)})

\* the table without the records of every user but B
OwnedBy(tbl, B) == {r \in tbl : r.userId = Val(B)}

\* C23: existence does not leak across owners.  Every getById, update and
\* delete call of a user B returns what it returns on the table that holds
\* B's records only: two tables that differ in the records of other users
\* only give B the same outcomes.
ExistenceDoesNotLeak ==
    /\ ret.op = "getById"
       => ret.res = getWineById(draft, OwnedBy(ret.pre, ret.userId), ret.id,
                                ret.userId)
    /\ ret.op = "delete"
       => ret.res = deleteWine(draft, OwnedBy(ret.pre, ret.userId), ret.id,
                               ret.userId).res
    /\ ret.op = "update"
       => ret.res = updateWine(draft, OwnedBy(ret.pre, ret.userId), ret.id,
                               ret.wine, ret.userId).res

(***************************************************************************)
(* The catalog importer, under SpecLoad.                                   *)
(***************************************************************************)
\* C9: idempotent import.  A load that was called while the catalog held at
\* least one row and has returned has inserted no row and deleted no row.
ImportIsIdempotent ==
    \A c \in LoadIds :
        (loads[c].pc = "done" /\ loads[c].pre # {})
            => (loads[c].inserted = 0 /\ loads[c].deleted = 0)

\* C10: import exclusion.  When two loads were both called on the empty
\* catalog and both have returned, at most one of them has inserted rows and
\* no two rows of the catalog hold the same source row.
ImportExclusion ==
    \A a, b \in LoadIds :
        (/\ a # b
         /\ loads[a].pc = "done" /\ loads[a].pre = {}
         /\ loads[b].pc = "done" /\ loads[b].pre = {})
            => /\ loads[a].inserted = 0 \/ loads[b].inserted = 0
               /\ \A r, s \in catalog : Content(r) = Content(s) => r = s

\* the header of the target field f: the canonical one, and the legacy one
Canonical(f) ==
    CASE f = "name" -> "NAME"
      [] f = "category" -> "TYPE"
      [] f = "wine" -> "WINE"
      [] f = "subType" -> "SUB_TYPE"
      [] f = "producer" -> "PRODUCER"
      [] f = "region" -> "REGION"
      [] f = "country" -> "COUNTRY"

Legacy(f) == f

\* the value of the target field f that the fallback policy takes from the
\* record r
Fallback(r, f) ==
    LET v == OrElse(Cell(r, Canonical(f)), Cell(r, Legacy(f)))
    IN  CASE f = "name" -> v
          [] f = "category" -> OrElse(v, "Other")
          [] OTHER -> OrNull(v)

\* C26: header fallback.  When one load has run to its end on the empty
\* catalog, the catalog holds one row for every record of the file, none
\* dropped, and each field of the row is the canonical header's value if it
\* is not empty, else the legacy header's value if it is not empty, else the
\* default, "Other" for category and null for the optional fields.
HeaderFallback ==
    \A c \in LoadIds :
        (/\ loads[c].pc = "done" /\ loads[c].pre = {}
         /\ \A d \in LoadIds \ {c} : loads[d].pc = "idle")
        => {Content(row) : row \in catalog}
             = {[f \in {"name", "category", "wine", "subType", "producer",
                        "region", "country"} |-> Fallback(csv.records[k], f)]
                  : k \in 1..Len(csv.records)}

(***************************************************************************)
(* The catalog importer over a failing database, under SpecLoadFail.       *)
(***************************************************************************)
\* C11: a failed insert is fatal and never silent.  A load that has returned
\* after the database failed one of its inserts has ended in a failure: its
\* promise is rejected.
ImportFailureIsReported ==
    \A c \in LoadIds :
        (loads[c].pc = "done" /\ loads[c].failed = "insert")
            => loads[c].outcome = "rejected"

\* C22: a backend failure on a write path reaches the caller.  A load that
\* has returned after the database failed one of its statements, the delete,
\* the count or an insert, has not returned normally: its promise is
\* rejected.
WriteFailureReachesCaller ==
    \A c \in LoadIds :
        (loads[c].pc = "done" /\ loads[c].failed # "none")
            => loads[c].outcome # "resolved"

\* C25: every load ends.  Under SpecLoadLive, a load that was called comes
\* to its end, with its promise resolved (imported or skipped) or rejected
\* (failed), also when the file cannot be read or the count fails, and a
\* load that has ended stays as it ended.
LoadTerminates ==
    \A c \in LoadIds :
        /\ (loads[c].pc # "idle") ~> (loads[c].pc = "done")
        /\ \A how \in {"resolved", "rejected"} :
              []((loads[c].pc = "done" /\ loads[c].outcome = how)
                 => [](loads[c].pc = "done" /\ loads[c].outcome = how))

(***************************************************************************)
(* The inventory with create, under SpecRemove and SpecCrud.               *)
(***************************************************************************)
\* C13: hard delete.  Once delete(id, owner) has returned true, every later
\* getById(id, owner) of the run returns not-found, whatever creates, updates
\* and deletes come between.
HardDelete ==
    \A id \in Ids, userId \in Users :
        []((/\ ret.op = "delete" /\ ret.id = id /\ ret.userId = userId
            /\ ret.res = Bool(TRUE))
           => []((ret.op = "getById" /\ ret.id = id /\ ret.userId = userId)
                 => ret.res = Undefined))

\* C13, its case: the stored record 1 of u1 has been deleted and u1 reads it
HardDeleteWitness ==
    /\ draft # "mem"
    /\ ret.op = "getById" /\ ret.id = 1 /\ ret.userId = "u1"
    /\ WhereId(wines, 1) = {}
    /\ wineSeq > 3

\* C14: create gives the record its owner and a fresh id.  The record a
\* successful create returns is owned by the caller and its id is above the
\* id of every record stored before; no two stored records share an id.
CreateAssignsIdentity ==
    /\ \A r, s \in wines : r.id = s.id => r = s
    /\ (ret.op = "create" /\ ret.res.kind = "row")
       => /\ ret.res.row.userId = Val(ret.userId)
          /\ \A r \in ret.pre : r.id < ret.res.row.id

\* the default of a column the insert leaves out
ColumnDefault(f) == IF f = "stockLevel" THEN Val(0) ELSE Val(<<>>)

\* C15: create defaults.  The record a successful create stores has
\* stockLevel 0 when the payload omits stockLevel and an empty vintageStocks
\* when the payload omits vintageStocks, and the payload's values when it
\* gives them.
CreateDefaults ==
    (ret.op = "create" /\ ret.res.kind = "row")
    => /\ ret.res.row \in wines
       /\ \A f \in {"stockLevel", "vintageStocks"} :
             ret.res.row[f] = IF f \in DOMAIN ret.wine THEN ret.wine[f]
                              ELSE ColumnDefault(f)

(***************************************************************************)
(* Overlapping updates, under SpecConc: no record is created or removed    *)
(* for good there, so every stored record is one of the table at the start.*)
(***************************************************************************)
\* C16: id, owner and creation timestamp are immutable.  In every state of
\* every interleaving of update calls, each stored record has the id, the
\* owner id and the creation timestamp it had when the calls began.
IdentityIsImmutable ==
    \A r \in wines :
        \E s \in SeedTable(draft) :
            s.id = r.id /\ s.userId = r.userId /\ s.createdAt = r.createdAt

\* C16, its case: two update calls of the draft that deletes and re-inserts
\* have both written the record back
IdentityWitness ==
    /\ draft = "reinsert"
    /\ \A c \in {1, 2} : calls[c].pc = "done" /\ calls[c].res.kind = "row"
    /\ \E r \in wines : r.id = 1 /\ r.rating = Val(5)

\* the tables that whole updates leave: tbl, and tbl after the calls of some
\* of the slots cs, each run alone from its start to its return, in any order
RECURSIVE WholeUpdates(_, _)
WholeUpdates(tbl, cs) ==
    {tbl} \cup
    UNION {WholeUpdates(updateWine(draft, tbl, calls[c].id, calls[c].wine,
                                   calls[c].userId).tbl,
                        cs \ {c}) : c \in cs}

\* C24: an update that is abandoned or fails after any of its steps leaves
\* the record whole.  In every state, with updates in progress or over, the
\* table is the table of the start with some of the called updates applied
\* in full: every record is still there, and none holds a part of a payload.
UpdateLeavesWholeRecord ==
    wines \in WholeUpdates(SeedTable(draft),
                           {c \in CallIds : calls[c].pc # "idle"})

(***************************************************************************)
(* The catalog's readers, getWineCatalog and searchWineCatalog.  Text is a *)
(* string, taken apart with Len, SubSeq and \o.  The database drafts match *)
(* with ILIKE '%query%', where % and _ inside the query are wildcards too; *)
(* MemStorage matches with toLowerCase().includes.                         *)
(***************************************************************************)
UpperCase == "ABCDEFGHIJKLMNOPQRSTUVWXYZ"

LowerCase == "abcdefghijklmnopqrstuvwxyz"

Head1(s) == SubSeq(s, 1, 1)

Tail1(s) == SubSeq(s, 2, Len(s))

\* toLowerCase of one character
LowerChar(c) ==
    IF \E i \in 1..Len(UpperCase) : SubSeq(UpperCase, i, i) = c
    THEN LET i == CHOOSE i \in 1..Len(UpperCase) : SubSeq(UpperCase, i, i) = c
         IN  SubSeq(LowerCase, i, i)
    ELSE c

RECURSIVE toLowerCase(_)
toLowerCase(s) ==
    IF s = "" THEN "" ELSE LowerChar(Head1(s)) \o toLowerCase(Tail1(s))

\* s.includes(q)
includes(s, q) ==
    \E i \in 0..(Len(s) - Len(q)) : SubSeq(s, i + 1, i + Len(q)) = q

\* s LIKE p: % stands for any run of characters, _ for any one character
RECURSIVE like(_, _)
like(s, p) ==
    IF p = "" THEN s = ""
    ELSE IF Head1(p) = "%"
    THEN like(s, Tail1(p)) \/ (s # "" /\ like(Tail1(s), p))
    ELSE /\ s # ""
         /\ Head1(p) = "_" \/ Head1(p) = Head1(s)
         /\ like(Tail1(s), Tail1(p))

\* the column f of a catalog row: name and category are NOT NULL, the
\* others hold a text or NULL
Column(r, f) == IF f \in {"name", "category"} THEN Val(r[f]) ELSE r[f]

\* column ILIKE pattern; a NULL column matches nothing
ilike(v, p) ==
    IF v = Null THEN FALSE ELSE like(toLowerCase(v[1]), toLowerCase(p))

\* query.trim(): blanks are cut off at both ends
RECURSIVE trimStart(_)
trimStart(s) ==
    IF s # "" /\ Head1(s) = " " THEN trimStart(Tail1(s)) ELSE s

RECURSIVE trimEnd(_)
trimEnd(s) ==
    IF s # "" /\ SubSeq(s, Len(s), Len(s)) = " "
    THEN trimEnd(SubSeq(s, 1, Len(s) - 1)) ELSE s

trim(s) == trimEnd(trimStart(s))

getWineCatalog(d, tbl) == tbl

\* storage.ts 201-216: the whole catalog for a blank query, else ILIKE on
\* name, category, producer, region, country
searchFive(tbl, query) ==
    IF trim(query) = "" THEN tbl
    ELSE {r \in tbl :
            \E f \in {"name", "category", "producer", "region", "country"} :
                ilike(Column(r, f), "%" \o query \o "%")}

\* unnamed/part_004 418-434: nothing for a query under 3 characters, else
\* ILIKE on name, wine, subType, producer, region, country
searchSix(tbl, query) ==
    IF Len(query) < 3 THEN {}
    ELSE {r \in tbl :
            \E f \in {"name", "wine", "subType", "producer", "region",
                       "country"} :
                ilike(Column(r, f), "%" \o query \o "%")}

\* unnamed/part_004 272-278: includes on name, and on producer when it is set
searchMem(tbl, query) ==
    {r \in tbl :
        \/ includes(toLowerCase(r.name), toLowerCase(query))
        \/ /\ r.producer \notin {Null, Val("")}
           /\ includes(toLowerCase(r.producer[1]), toLowerCase(query))}

searchWineCatalog(d, tbl, query) ==
    CASE d = "noowner" -> searchSix(tbl, query)
      [] d = "mem" -> searchMem(tbl, query)
      [] OTHER -> searchFive(tbl, query)

\* the catalog the import of draft d leaves of the file f
Loaded(d, f) == InsertValues({}, 1, catalogEntries(d, f.records))

\* the catalogs a reader may find: MemStorage's map is filled by its own
\* load, the table wine_catalog by any of the imports into the database
Catalogs(d) ==
    IF d = "mem" THEN {Loaded("mem", f) : f \in CsvFiles}
    ELSE {Loaded(e, f) : e \in LoadDrafts \ {"mem"}, f \in CsvFiles}

Queries == {"", " ", "   ", "so", "BAR", "neb", "red", "a_o", "xyz"}

InitSearch ==
    /\ draft \in Drafts
    /\ wines = SeedTable(draft)
    /\ wineSeq = Cardinality(wines) + 1
    /\ clock = 2
    /\ ret = NoCall
    /\ calls = NoCalls
    /\ catalog \in Catalogs(draft)
    /\ catSeq = Cardinality(catalog) + 1
    /\ csv = NoFile
    /\ loads = <<>>

SearchWineCatalog ==
    \E query \in Queries :
        /\ ret' = [op |-> "search", id |-> 0, userId |-> "",
                   wine |-> EmptyPayload, category |-> "", pre |-> {},
                   query |-> query,
                   res |-> Rows(searchWineCatalog(draft, catalog, query))]
        /\ UNCHANGED <<catVars, draft, wines, wineSeq, clock, calls>>

GetWineCatalog ==
    /\ ret' = [op |-> "listAll", id |-> 0, userId |-> "",
               wine |-> EmptyPayload, category |-> "", pre |-> {},
               query |-> "",
               res |-> Rows(getWineCatalog(draft, catalog))]
    /\ UNCHANGED <<catVars, draft, wines, wineSeq, clock, calls>>

NextSearch ==
    \/ SearchWineCatalog
    \/ GetWineCatalog

SpecSearch == InitSearch /\ [][NextSearch]_vars

(***************************************************************************)
(* The catalog's readers, under SpecSearch.                                *)
(***************************************************************************)
\* the entry holds q in one of its seven text fields, whatever the case
Matches(r, q) ==
    \E f \in {"name", "category", "wine", "subType", "producer", "region",
               "country"} :
        /\ Column(r, f) # Null
        /\ includes(toLowerCase(Column(r, f)[1]), toLowerCase(q))

\* C17: search is a literal, case-insensitive substring match over seven
\* fields.  For a query that is not blank, search returns exactly the
\* entries of the catalog with the query inside name, category, wine,
\* subType, producer, region or country.
SearchMatchesExactly ==
    (ret.op = "search" /\ trim(ret.query) # "")
    => ret.res = Rows({r \in catalog : Matches(r, ret.query)})

\* C18: a blank query lists the catalog.  For a query that is empty or all
\* blanks, search returns what listAll returns, the whole catalog.
BlankSearchListsAll ==
    (ret.op = "search" /\ trim(ret.query) = "")
    => ret.res = Rows(getWineCatalog(draft, catalog))

(***************************************************************************)
(* The routes POST /api/wines and PATCH /api/wines/:id: the body is parsed *)
(* with insertWineSchema (its partial for PATCH) and handed to the storage *)
(* when it passes; the PATCH route of the draft "inline" builds its UPDATE *)
(* from the body as it came.  Bodies hold values of the right type.        *)
(***************************************************************************)
\* the year of new Date().getFullYear()
CurrentYear == 2026

\* the values of WineCategory
WineCategory ==
    {"Red", "White", "Rose", "Fortified", "Beer", "Cider", "Whiskies",
     "Whisky", "Spirits", "Other"}

\* rating: z.number().min(1).max(5).nullable().optional()
RatingParses(body) ==
    \/ "rating" \notin DOMAIN body
    \/ body.rating = Null
    \/ body.rating[1] >= 1 /\ body.rating[1] <= 5

\* insertWineSchema.safeParse(body).success: name and category are strings
\* that must be there, the rating is checked, every other column takes any
\* value of its type
insertWineSchema(body) ==
    /\ \A f \in NotNullFields : f \in DOMAIN body /\ body[f] # Null
    /\ RatingParses(body)

\* insertWineSchema.partial().safeParse(body).success
insertWineSchemaPartial(body) ==
    /\ \A f \in NotNullFields : f \in DOMAIN body => body[f] # Null
    /\ RatingParses(body)

\* bodies a client may send
Unchecked ==
    [name |-> Val(""), category |-> Val("Sparkling"), stockLevel |-> Val(-1),
     vintageStocks |-> Val(<<[vintage |-> 1800, stock |-> -1]>>)]

PostBodies ==
    {Soave, Unchecked,
     [name |-> Val("Cava"), category |-> Val("White"), rating |-> Val(9)]}

PatchBodies == {OnlyField("rating", Val(9)), OnlyField("stockLevel", Val(-1))}

\* unnamed/part_005 69-88: 400 when the body does not parse, else addWine
PostWine ==
    \E userId \in Users, body \in PostBodies :
        /\ wineSeq <= MaxId
        /\ IF insertWineSchema(body)
           THEN LET out == addWine(draft, wines, body, userId, wineSeq, clock)
                IN  /\ wines' = out.tbl
                    /\ ret' = [op |-> "post", id |-> wineSeq,
                               userId |-> userId, wine |-> body,
                               category |-> "", pre |-> wines,
                               res |-> out.res]
                    /\ wineSeq' = wineSeq + 1
                    /\ clock' = clock + 1
           ELSE /\ ret' = [op |-> "post", id |-> 0, userId |-> userId,
                           wine |-> body, category |-> "", pre |-> wines,
                           res |-> BadRequest]
                /\ UNCHANGED <<wines, wineSeq, clock>>
        /\ UNCHANGED <<catVars, draft, calls>>

\* unnamed/part_005 90-119: 400 when the body does not parse, else
\* updateWine; storage.ts 946-1036: the UPDATE of the body's fields
PatchWine ==
    \E id \in Ids, userId \in Users, body \in PatchBodies :
        /\ IF draft = "inline" \/ insertWineSchemaPartial(body)
           THEN LET out == updateWine(draft, wines, id, body, userId)
                IN  /\ wines' = out.tbl
                    /\ ret' = [op |-> "patch", id |-> id, userId |-> userId,
                               wine |-> body, category |-> "", pre |-> wines,
                               res |-> out.res]
           ELSE /\ ret' = [op |-> "patch", id |-> id, userId |-> userId,
                           wine |-> body, category |-> "", pre |-> wines,
                           res |-> BadRequest]
                /\ UNCHANGED wines
        /\ UNCHANGED <<catVars, draft, wineSeq, clock, calls>>

NextRoutes ==
    \/ PostWine
    \/ PatchWine

SpecRoutes == Init /\ [][NextRoutes]_vars

(***************************************************************************)
(* The routes, under SpecRoutes.                                           *)
(***************************************************************************)
\* the field constraints of a stored record
FieldConstraints(r) ==
    /\ r.name \notin {Null, Val("")}
    /\ r.category # Null /\ r.category[1] \in WineCategory
    /\ r.rating = Null \/ (r.rating[1] >= 1 /\ r.rating[1] <= 5)
    /\ r.stockLevel = Null \/ r.stockLevel[1] >= 0
    /\ r.vintageStocks = Null
       \/ \A k \in 1..Len(r.vintageStocks[1]) :
             /\ r.vintageStocks[1][k].vintage >= 1900
             /\ r.vintageStocks[1][k].vintage <= CurrentYear
             /\ r.vintageStocks[1][k].stock >= 0

\* C20: stored records are valid.  Every stored record has a name that is
\* not empty, a category of the enumeration, a rating that is absent or in
\* 1..5, a stock level of at least 0 and vintages in 1900..current year
\* with stocks of at least 0.
StoredRecordsAreValid == \A r \in wines : FieldConstraints(r)


(***************************************************************************)
(* The whole store: the inventory's calls, the catalog's readers and the   *)
(* loads of the catalog in one process.  The storage classes that hold all *)
(* of them are "ormset", "noowner" and "mem".  A call of the inventory or  *)
(* a reader is one statement, so it runs between two steps of the loads in *)
(* flight.                                                                 *)
(***************************************************************************)
StoreDrafts == {"ormset", "noowner", "mem"}

InitStore ==
    /\ draft \in StoreDrafts
    /\ wines = SeedTable(draft)
    /\ wineSeq = Cardinality(wines) + 1
    /\ clock = 2
    /\ ret = NoCall
    /\ calls = NoCalls
    /\ catalog = {}
    /\ catSeq = 1
    /\ csv \in CsvFiles
    /\ loads = [c \in LoadIds |-> IdleLoad]

\* the calls of one user on the first record, in the place of all calls
RateFirst == Update(1, "u1", OnlyField("rating", Val(5)))

DeleteFirst == Delete(1, "u1")

AddFirst == Add("u1", Soave)

\* a step of the load in the slot c
StepLoad(c) ==
    \/ CallLoad(c)
    \/ ReadAll(c)
    \/ ClearCatalog(c)
    \/ InsertBatch(c)
    \/ CountRows(c)
    \/ ParseAll(c)
    \/ EndInsert(c)
    \/ ParseMem(c)

NextStore ==
    \/ AddFirst
    \/ RateFirst
    \/ DeleteFirst
    \/ GetWineCatalog
    \/ \E c \in LoadIds : StepLoad(c)

SpecStore == InitStore /\ [][NextStore]_vars

NextConcDelete ==
    \/ NextConc
    \/ DeleteFirst

SpecConcDelete == InitConc /\ [][NextConcDelete]_vars

\* C27: no resurrection under interleaving.  After delete(id, owner) has
\* returned true no state holds a record with that id, also when an update
\* of the record that began before the delete ends after it.
NoResurrection ==
    (ret.op = "delete" /\ ret.res = Bool(TRUE))
    => WhereId(wines, ret.id) = {}

(***************************************************************************)
(* The catalog's readers while loads are in flight: a reader is one select *)
(* and runs between two statements of a load.                              *)
(***************************************************************************)
NextRead ==
    \/ SearchWineCatalog
    \/ GetWineCatalog
    \/ \E c \in LoadIds : StepLoad(c)

SpecRead == InitStore /\ [][NextRead]_vars

\* the rows of a table without their ids
Contents(tbl) == {Content(row) : row \in tbl}

\* the catalog that the load in the slot c, run alone on the catalog it was
\* called on, leaves: the file in the place of the rows, the rows as they
\* were when the table is not empty, or the file added to the rows
ContentsAfter(c) ==
    LET file == {catalogEntries(draft, csv.records)[k] :
                    k \in 1..Len(catalogEntries(draft, csv.records))}
    IN  CASE draft = "ormset" ->
                IF csv.exists THEN file ELSE Contents(loads[c].pre)
          [] draft = "noowner" ->
                IF loads[c].pre # {} THEN Contents(loads[c].pre) ELSE file
          [] OTHER -> Contents(loads[c].pre) \cup file

\* what the reader that returned r finds in the table tbl
Reads(r, tbl) ==
    IF r.op = "listAll" THEN getWineCatalog(draft, tbl)
    ELSE searchWineCatalog(draft, tbl, r.query)

\* C28: readers never see a reload in progress.  A search or listAll that
\* returns while a load is in flight returns what it finds in the whole
\* catalog of before that load or in the whole catalog of after it, never
\* in an empty or half-filled catalog in between.
ReadersSeeWholeCatalog ==
    [][(ret' # ret /\ ret'.op \in {"search", "listAll"})
       => \A c \in LoadIds :
             loads[c].pc \notin {"idle", "done"}
             => Contents(ret'.res.rows)
                  \in {Reads(ret', Contents(loads[c].pre)),
                       Reads(ret', ContentsAfter(c))}]_vars

(***************************************************************************)
(* Overlapping updates over a database that may fail a statement: the      *)
(* awaited statement throws and leaves the table as it was, and the catch  *)
(* of updateWine throws the error on to the caller.  MemStorage has no     *)
(* database.                                                               *)
(***************************************************************************)
\* the statement the call in the slot c awaits fails: the UPDATE, or the
\* select, the delete or the insert of the draft that inserts again
StatementFails(c) ==
    /\ draft # "mem"
    /\ calls[c].pc \in {"called", "selected", "deleted"}
    /\ calls' = [calls EXCEPT ![c].pc = "done", ![c].res = Thrown]
    /\ UNCHANGED <<catVars, draft, wines, wineSeq, clock, ret>>

NextConcFail ==
    \/ NextConc
    \/ \E c \in CallIds : StatementFails(c)

SpecConcFail == InitConc /\ [][NextConcFail]_vars

\* the records of tbl but those with the id the call ret names
Others(tbl) == {r \in tbl : r.id # ret.id}

\* C29: single-record frame.  A create, update or delete that has returned
\* has left every record with another id as it was; an update has left the
\* number of records as it was, a create has added one record or none, and
\* a delete that took a record away took one and returned true.  When every
\* update call has returned, in whatever way, the table holds as many
\* records as before the calls.
SingleRecordFrame ==
    /\ ret.op \in {"create", "update", "delete"}
       => /\ Others(wines) = Others(ret.pre)
          /\ ret.op = "update"
             => Cardinality(wines) = Cardinality(ret.pre)
          /\ ret.op = "create"
             => Cardinality(wines) = Cardinality(ret.pre)
                                      + (IF ret.res.kind = "row" THEN 1 ELSE 0)
          /\ ret.op = "delete"
             => \/ wines = ret.pre
                \/ /\ Cardinality(wines) = Cardinality(ret.pre) - 1
                   /\ ret.res = Bool(TRUE)
    /\ (calls # NoCalls /\ \A c \in CallIds : calls[c].pc \in {"idle", "done"})
       => Cardinality(wines) = Cardinality(SeedTable(draft))

(***************************************************************************)
(* The importer on files of more rows than one batch holds.  The loaders   *)
(* that send their rows to the database with db.insert(...).values(rows),  *)
(* many rows in a statement, are "ormset" and "noowner".  The rows of a    *)
(* file differ in their names.                                             *)
(***************************************************************************)
MaxRows == 3 * batchSize

\* the file of n rows
FileOf(n) ==
    [exists |-> TRUE,
     records |-> [k \in 1..n |->
                    [NAME |-> ToString(k), CATEGORY |-> "Red", TYPE |-> "Red"]]]

BigFiles ==
    {FileOf(n) : n \in {0, 1, 2, batchSize - 1, batchSize, batchSize + 1,
                        2 * batchSize - 1, 2 * batchSize, 2 * batchSize + 1,
                        MaxRows}}

BatchDrafts == {"ormset", "noowner"}

InitBatch ==
    /\ draft \in BatchDrafts
    /\ wines = SeedTable(draft)
    /\ wineSeq = Cardinality(wines) + 1
    /\ clock = 2
    /\ ret = NoCall
    /\ calls = NoCalls
    /\ catalog = {}
    /\ catSeq = 1
    /\ csv \in BigFiles
    /\ loads = [c \in LoadIds |-> IdleLoad]

\* one load, the first of the process
NextBatch ==
    \E c \in {1} :
        \/ CallLoad(c)
        \/ ReadAll(c)
        \/ ClearCatalog(c)
        \/ InsertBatch(c)
        \/ CountRows(c)
        \/ ParseAll(c)
        \/ EndInsert(c)

SpecBatch == InitBatch /\ [][NextBatch]_vars

\* one load of lds has run to its end on the empty catalog, and cat holds
\* every accepted row of the file once, with the ids of the serial in the
\* order of the file: n rows for a file of n
Covered(cat, lds) ==
    \A c \in LoadIds :
        (/\ lds[c].pc = "done" /\ lds[c].pre = {}
         /\ \A d \in LoadIds \ {c} : lds[d].pc = "idle")
        => cat = InsertValues({}, 1, lds[c].entries)

\* C30: batching covers the input exactly once.  No statement of a load
\* inserts more than batchSize rows, and when the load has run to its end
\* on the empty catalog every accepted row of the file is in the catalog
\* once, in the order of the file, n rows for a file of n.
BatchesCoverInput ==
    [][/\ Cardinality(catalog' \ catalog) <= batchSize
       /\ Covered(catalog', loads')]_vars

====
